---- MODULE Spec2Model ----
(***************************************************************************)
(* The two recursive-descent parsers of the repository as one state        *)
(* machine: src/src/parser.py (the verdict-only parser, variant "minimal") *)
(* and src/legacy/parser_implement.py (the tree-building parser, variant   *)
(* "legacy").  A state is the parser object (tokens, pos, current_token),  *)
(* the Python call stack of grammar procedures (one frame per active call, *)
(* with its position pc and its locals), the value the last finished call  *)
(* returned, and the outcome of parse().  One step is one basic block of   *)
(* one grammar procedure: at most one eat, then a call or a return.        *)
(***************************************************************************)
EXTENDS Integers, Sequences, FiniteSets, TLC

VARIABLES variant, tokens, pos, current_token, stack, ret, outcome, err, last_call

vars == <<variant, tokens, pos, current_token, stack, ret, outcome, err, last_call>>

\* Python's None, for an absent token or tree node.
None == [type |-> "None"]

\* Python's None for an absent text argument (eat's value=None).
NoValue == "None"

\* ------------------------------------------------------------------ tokens

Tok(t, v) == [type |-> t, value |-> v]
Kw(v) == Tok("Keywords", v)
Id(v) == Tok("Identifiers", v)
Num(v) == Tok("Numeric_constants", v)
Op(v) == Tok("Operators", v)
Sp(v) == Tok("Special_characters", v)
Cm(v) == Tok("Comments", v)

\* ------------------------------------------------------- stack of calls

\* A frame of the call stack; entry is the cursor at the moment of the
\* call, after the eat of the calling step.
Frame(p, locals) == [proc |-> p, pc |-> 0, loc |-> locals, entry |-> pos']

Top == stack[Len(stack)]

Popped == SubSeq(stack, 1, Len(stack) - 1)

\* The running procedure p is at position k.
At(p, k) ==
    /\ outcome = "running"
    /\ stack # <<>>
    /\ Top.proc = p
    /\ Top.pc = k

\* The stack with the running procedure moved to position k, locals l.
Goto(k, l) == Popped \o <<[Top EXCEPT !.pc = k, !.loc = l]>>

\* The stack after the running procedure, moved to k, calls procedure p.
Call(k, l, p, pl) == Goto(k, l) \o <<Frame(p, pl)>>

\* What follows the step's eat or test: the new stack and returned value,
\* unless the step raised, which leaves the frames where the exception left.
Then(newstack, newret) ==
    /\ stack' = IF outcome' = "running" THEN newstack ELSE stack
    /\ ret' = IF outcome' = "running" THEN newret ELSE ret
    /\ UNCHANGED <<variant, tokens>>

\* A step that neither consumes a token nor raises.
Stay ==
    /\ UNCHANGED <<pos, current_token, outcome, err>>
    /\ last_call' = None

\* Reading .type or .value of current_token when it is None.
AttributeError ==
    /\ outcome' = "AttributeError"
    /\ err' = [at_end |-> TRUE, message |-> <<"'NoneType' object has no attribute">>,
               found |-> None]
    /\ last_call' = None
    /\ UNCHANGED <<pos, current_token>>

\* =================================================== src/src/parser.py

TYPE_KEYWORDS == {"int", "float", "double", "bool", "char", "string", "void"}

\* Parser.error: the message, with the offending token or the end of input.
error(message) ==
    /\ outcome' = "SyntaxError"
    /\ err' = [at_end |-> current_token = None, message |-> message,
               found |-> current_token]
    /\ UNCHANGED <<pos, current_token>>

\* advance that leaves the cursor where it is.
advance_without_move == UNCHANGED <<pos, current_token, outcome, err>>

\* Parser.advance
advance ==
    /\ pos' = pos + 1
    /\ current_token' = IF pos + 1 < Len(tokens) THEN tokens[pos + 2] ELSE None
    /\ UNCHANGED <<outcome, err>>

\* Parser.eat line 27
type_match(token_type) == current_token.type = token_type

\* value_match that takes any text.
value_match_any(value) == TRUE

\* Parser.eat line 29
value_match(value) == value = NoValue \/ current_token.value = value

\* Parser.eat(token_type, value=None)
eat(token_type, value) ==
    /\ last_call' = [op |-> "eat", token_type |-> token_type, value |-> value]
    /\ IF current_token # None
       THEN IF type_match(token_type) /\ value_match(value)
            THEN advance
            ELSE error(<<"Expected", token_type>>
                       \o (IF value # NoValue THEN <<value>> ELSE <<>>))
       ELSE error(<<"Unexpected end of input, expected", token_type>>)

\* is_statement_start that takes any token.
is_statement_start_any == current_token # None

\* Parser.is_statement_start
is_statement_start ==
    LET t == current_token IN
    IF t = None THEN FALSE
    ELSE \/ t.type = "Keywords"
            /\ t.value \in TYPE_KEYWORDS \cup {"if", "while", "for", "return"}
         \/ t.type = "Identifiers"
         \/ t.type = "Special_characters" /\ t.value = "{"

NoLoc == [none |-> None]

\* Parser.parse
parse ==
    \/ /\ At("parse", 0)
       /\ Stay
       /\ Then(Call(1, NoLoc, "program", NoLoc), ret)
    \/ /\ At("parse", 1)
       /\ last_call' = None
       /\ IF current_token # None
          THEN /\ error(<<"Unexpected tokens after valid program">>)
               /\ Then(stack, ret)
          ELSE /\ outcome' = "Accepted"
               /\ stack' = <<>>
               /\ ret' = [type |-> "str", value |-> "Accepted"]
               /\ UNCHANGED <<variant, tokens, pos, current_token, err>>

\* Parser.program
program ==
    \/ /\ At("program", 0)
       /\ Stay
       /\ Then(Call(1, NoLoc, "statement_list", NoLoc), ret)
    \/ /\ At("program", 1)
       /\ Stay
       /\ Then(Popped, None)

\* Parser.statement_list
statement_list ==
    /\ At("statement_list", 0)
    /\ Stay
    /\ IF current_token # None /\ is_statement_start
       THEN Then(Call(0, NoLoc, "statement", NoLoc), ret)
       ELSE Then(Popped, None)

\* Parser.statement
statement ==
    \/ /\ At("statement", 0)
       /\ LET t == current_token IN
          IF t = None THEN AttributeError /\ Then(stack, ret)
          ELSE IF t.type = "Special_characters" /\ t.value = "{"
          THEN Stay /\ Then(Call(1, NoLoc, "block", NoLoc), ret)
          ELSE IF t.type = "Keywords" /\ t.value = "if"
          THEN Stay /\ Then(Call(1, NoLoc, "if_statement", NoLoc), ret)
          ELSE IF t.type = "Keywords" /\ t.value = "while"
          THEN Stay /\ Then(Call(1, NoLoc, "while_statement", NoLoc), ret)
          ELSE IF t.type = "Keywords" /\ t.value = "for"
          THEN Stay /\ Then(Call(1, NoLoc, "for_statement", NoLoc), ret)
          ELSE IF t.type = "Keywords" /\ t.value = "return"
          THEN Stay /\ Then(Call(1, NoLoc, "return_statement", NoLoc), ret)
          ELSE IF t.type = "Keywords" /\ t.value \in TYPE_KEYWORDS
          THEN Stay /\ Then(Call(2, NoLoc, "declaration", NoLoc), ret)
          ELSE IF t.type = "Identifiers"
          THEN Stay /\ Then(Call(2, NoLoc, "assignment", NoLoc), ret)
          ELSE /\ error(<<"Invalid statement start">>)
               /\ last_call' = None
               /\ Then(stack, ret)
    \/ /\ At("statement", 1)
       /\ Stay
       /\ Then(Popped, None)
    \/ /\ At("statement", 2)
       /\ eat("Special_characters", ";")
       /\ Then(Popped, None)

\* block with a forgiving close: a missing '}' is let through.
block_without_close ==
    \/ /\ At("block", 0)
       /\ eat("Special_characters", "{")
       /\ Then(Call(1, NoLoc, "statement_list", NoLoc), ret)
    \/ /\ At("block", 1)
       /\ IF current_token # None /\ current_token.value = "}"
          THEN eat("Special_characters", "}")
          ELSE Stay
       /\ Then(Popped, None)

\* Parser.block
block ==
    \/ /\ At("block", 0)
       /\ eat("Special_characters", "{")
       /\ Then(Call(1, NoLoc, "statement_list", NoLoc), ret)
    \/ /\ At("block", 1)
       /\ eat("Special_characters", "}")
       /\ Then(Popped, None)

\* Parser.declaration
declaration ==
    \/ /\ At("declaration", 0)
       /\ eat("Keywords", NoValue)
       /\ Then(Goto(1, NoLoc), ret)
    \/ /\ At("declaration", 1)
       /\ eat("Identifiers", NoValue)
       /\ Then(Popped, None)

\* Parser.assignment
assignment ==
    \/ /\ At("assignment", 0)
       /\ eat("Identifiers", NoValue)
       /\ Then(Goto(1, NoLoc), ret)
    \/ /\ At("assignment", 1)
       /\ eat("Operators", "=")
       /\ Then(Call(2, NoLoc, "expression", NoLoc), ret)
    \/ /\ At("assignment", 2)
       /\ Stay
       /\ Then(Popped, None)

\* Parser.if_statement
if_statement ==
    \/ /\ At("if_statement", 0)
       /\ eat("Keywords", "if")
       /\ Then(Goto(1, NoLoc), ret)
    \/ /\ At("if_statement", 1)
       /\ eat("Special_characters", "(")
       /\ Then(Call(2, NoLoc, "expression", NoLoc), ret)
    \/ /\ At("if_statement", 2)
       /\ eat("Special_characters", ")")
       /\ Then(Call(3, NoLoc, "statement", NoLoc), ret)
    \/ /\ At("if_statement", 3)
       /\ IF /\ current_token # None
             /\ current_token.type = "Keywords"
             /\ current_token.value = "else"
          THEN /\ eat("Keywords", "else")
               /\ Then(Call(4, NoLoc, "statement", NoLoc), ret)
          ELSE /\ Stay
               /\ Then(Popped, None)
    \/ /\ At("if_statement", 4)
       /\ Stay
       /\ Then(Popped, None)

\* Parser.while_statement
while_statement ==
    \/ /\ At("while_statement", 0)
       /\ eat("Keywords", "while")
       /\ Then(Goto(1, NoLoc), ret)
    \/ /\ At("while_statement", 1)
       /\ eat("Special_characters", "(")
       /\ Then(Call(2, NoLoc, "expression", NoLoc), ret)
    \/ /\ At("while_statement", 2)
       /\ eat("Special_characters", ")")
       /\ Then(Call(3, NoLoc, "statement", NoLoc), ret)
    \/ /\ At("while_statement", 3)
       /\ Stay
       /\ Then(Popped, None)

\* Parser.for_statement
for_statement ==
    \/ /\ At("for_statement", 0)
       /\ eat("Keywords", "for")
       /\ Then(Goto(1, NoLoc), ret)
    \/ /\ At("for_statement", 1)
       /\ eat("Special_characters", "(")
       /\ Then(Goto(2, NoLoc), ret)
    \/ /\ At("for_statement", 2)
       /\ IF current_token = None THEN AttributeError /\ Then(stack, ret)
          ELSE IF /\ current_token.type = "Keywords"
                  /\ current_token.value \in TYPE_KEYWORDS
          THEN Stay /\ Then(Call(3, NoLoc, "declaration", NoLoc), ret)
          ELSE Stay /\ Then(Call(3, NoLoc, "assignment", NoLoc), ret)
    \/ /\ At("for_statement", 3)
       /\ eat("Special_characters", ";")
       /\ Then(Call(4, NoLoc, "expression", NoLoc), ret)
    \/ /\ At("for_statement", 4)
       /\ eat("Special_characters", ";")
       /\ Then(Call(5, NoLoc, "assignment", NoLoc), ret)
    \/ /\ At("for_statement", 5)
       /\ eat("Special_characters", ")")
       /\ Then(Call(6, NoLoc, "statement", NoLoc), ret)
    \/ /\ At("for_statement", 6)
       /\ Stay
       /\ Then(Popped, None)

\* Parser.return_statement
return_statement ==
    \/ /\ At("return_statement", 0)
       /\ eat("Keywords", "return")
       /\ Then(Call(1, NoLoc, "expression", NoLoc), ret)
    \/ /\ At("return_statement", 1)
       /\ eat("Special_characters", ";")
       /\ Then(Popped, None)

\* The operator loop shared by expression, comparison and term: parse one
\* operand with procedure operand; then, while the current token is an
\* operator of ops, eat it and parse another operand.
OperatorLoop(p, operand, ops) ==
    \/ /\ At(p, 0)
       /\ Stay
       /\ Then(Call(1, NoLoc, operand, NoLoc), ret)
    \/ /\ At(p, 1)
       /\ IF /\ current_token # None
             /\ current_token.type = "Operators"
             /\ current_token.value \in ops
          THEN /\ eat("Operators", current_token.value)
               /\ Then(Call(1, NoLoc, operand, NoLoc), ret)
          ELSE /\ Stay
               /\ Then(Popped, None)

\* Parser.expression
expression == OperatorLoop("expression", "comparison", {"==", "!=", "<", "<=", ">", ">="})

\* Parser.comparison
comparison == OperatorLoop("comparison", "term", {"+", "-"})

\* Parser.term
term == OperatorLoop("term", "factor", {"*", "/"})

\* factor without the alternative for true and false.
factor_without_boolean ==
    \/ /\ At("factor", 0)
       /\ LET t == current_token IN
          IF t = None
          THEN /\ error(<<"Unexpected end of input in expression">>)
               /\ last_call' = None
               /\ Then(stack, ret)
          ELSE IF t.type = "Identifiers"
          THEN eat("Identifiers", NoValue) /\ Then(Popped, None)
          ELSE IF t.type = "Numeric_constants"
          THEN eat("Numeric_constants", NoValue) /\ Then(Popped, None)
          ELSE IF t.type = "Special_characters" /\ t.value = "("
          THEN /\ eat("Special_characters", "(")
               /\ Then(Call(1, NoLoc, "expression", NoLoc), ret)
          ELSE /\ error(<<"Expected identifier, number, boolean or '('">>)
               /\ last_call' = None
               /\ Then(stack, ret)
    \/ /\ At("factor", 1)
       /\ eat("Special_characters", ")")
       /\ Then(Popped, None)

\* Parser.factor
factor ==
    \/ /\ At("factor", 0)
       /\ LET t == current_token IN
          IF t = None
          THEN /\ error(<<"Unexpected end of input in expression">>)
               /\ last_call' = None
               /\ Then(stack, ret)
          ELSE IF t.type = "Identifiers"
          THEN eat("Identifiers", NoValue) /\ Then(Popped, None)
          ELSE IF t.type = "Numeric_constants"
          THEN eat("Numeric_constants", NoValue) /\ Then(Popped, None)
          ELSE IF t.type = "Keywords" /\ t.value \in {"true", "false"}
          THEN eat("Keywords", NoValue) /\ Then(Popped, None)
          ELSE IF t.type = "Special_characters" /\ t.value = "("
          THEN /\ eat("Special_characters", "(")
               /\ Then(Call(1, NoLoc, "expression", NoLoc), ret)
          ELSE /\ error(<<"Expected identifier, number, boolean or '('">>)
               /\ last_call' = None
               /\ Then(stack, ret)
    \/ /\ At("factor", 1)
       /\ eat("Special_characters", ")")
       /\ Then(Popped, None)

\* ====================================== src/legacy/parser_implement.py

BASIC_TYPES == {"int", "float", "double", "bool", "char", "void"}

\* Python's repr of a text: the text in quotes.
repr(value) == <<"'", value, "'">>

\* Parser.error(expected)
legacy_error(expected) ==
    /\ outcome' = "SyntaxError"
    /\ err' = [at_end |-> current_token = None, message |-> <<"expected">> \o expected,
               found |-> current_token]
    /\ UNCHANGED <<pos, current_token>>

\* legacy_eat_body that keeps the last token as current after the end.
legacy_eat_body_keeps_token(token_type) ==
    IF current_token # None /\ current_token.type = token_type
    THEN /\ pos' = pos + 1
         /\ current_token' = IF pos + 1 < Len(tokens) THEN tokens[pos + 2] ELSE current_token
         /\ UNCHANGED <<outcome, err>>
    ELSE legacy_error(<<token_type>>)

\* The body of Parser.eat(token_type).
legacy_eat_body(token_type) ==
    IF current_token # None /\ current_token.type = token_type
    THEN /\ pos' = pos + 1
         /\ current_token' = IF pos + 1 < Len(tokens) THEN tokens[pos + 2] ELSE None
         /\ UNCHANGED <<outcome, err>>
    ELSE legacy_error(<<token_type>>)

\* Parser.eat(token_type), called by a grammar procedure.
legacy_eat(token_type) ==
    /\ last_call' = [op |-> "eat", token_type |-> token_type, value |-> NoValue]
    /\ legacy_eat_body(token_type)

\* Parser.eat_value(value): the category handed to eat is the token's own.
legacy_eat_value(value) ==
    /\ last_call' = [op |-> "eat_value", token_type |-> NoValue, value |-> value]
    /\ IF current_token # None /\ current_token.value = value
       THEN legacy_eat_body(current_token.type)
       ELSE legacy_error(repr(value))

\* A raise by a grammar procedure itself, outside eat and eat_value.
legacy_raise(expected) ==
    /\ legacy_error(<<expected>>)
    /\ last_call' = None
    /\ Then(stack, ret)

Faults == AttributeError /\ Then(stack, ret)

IsSp(v) == current_token.type = "Special_characters" /\ current_token.value = v

\* Parser.parse
legacy_parse ==
    \/ /\ At("legacy_parse", 0)
       /\ Stay
       /\ Then(Call(1, NoLoc, "legacy_program", NoLoc), ret)
    \/ /\ At("legacy_parse", 1)
       /\ IF current_token # None
          THEN legacy_raise("end of input")
          ELSE /\ outcome' = "Accepted"
               /\ stack' = <<>>
               /\ last_call' = None
               /\ UNCHANGED <<variant, tokens, pos, current_token, err, ret>>

\* Parser.program
legacy_program ==
    \/ /\ At("legacy_program", 0)
       /\ Stay
       /\ Then(Call(1, NoLoc, "legacy_statement_list", [stmts |-> <<>>]), ret)
    \/ /\ At("legacy_program", 1)
       /\ Stay
       /\ Then(Popped, [type |-> "program", body |-> ret.items])

\* The loop of Parser.statement_list, with stmts as collected so far.
\* The list returned is the record [type |-> "list", items |-> stmts], so that
\* every returned value is a record.
legacy_statement_loop(stmts) ==
    IF current_token # None /\ ~IsSp("}")
    THEN Then(Call(1, [stmts |-> stmts], "legacy_statement", NoLoc), ret)
    ELSE Then(Popped, [type |-> "list", items |-> stmts])

\* Parser.statement_list
legacy_statement_list ==
    \/ /\ At("legacy_statement_list", 0)
       /\ Stay
       /\ legacy_statement_loop(<<>>)
    \/ /\ At("legacy_statement_list", 1)
       /\ Stay
       /\ legacy_statement_loop(Append(Top.loc.stmts, ret))

\* Parser.statement
legacy_statement ==
    \/ /\ At("legacy_statement", 0)
       /\ LET t == current_token IN
          IF t = None THEN legacy_raise("statement")
          ELSE IF t.type = "Keywords" /\ t.value \in BASIC_TYPES
          THEN Stay /\ Then(Call(1, NoLoc, "legacy_declaration_or_function", NoLoc), ret)
          ELSE IF t.type = "Keywords" /\ t.value = "if"
          THEN Stay /\ Then(Call(1, NoLoc, "legacy_if_statement", NoLoc), ret)
          ELSE IF t.type = "Keywords" /\ t.value = "while"
          THEN Stay /\ Then(Call(1, NoLoc, "legacy_while_statement", NoLoc), ret)
          ELSE IF t.type = "Keywords" /\ t.value = "for"
          THEN Stay /\ Then(Call(1, NoLoc, "legacy_for_statement", NoLoc), ret)
          ELSE IF t.type = "Keywords" /\ t.value = "return"
          THEN Stay /\ Then(Call(1, NoLoc, "legacy_return_statement", NoLoc), ret)
          ELSE IF t.type = "Special_characters" /\ t.value = "{"
          THEN /\ legacy_eat("Special_characters")
               /\ Then(Call(2, NoLoc, "legacy_statement_list", [stmts |-> <<>>]), ret)
          ELSE IF t.type = "Identifiers"
          THEN Stay /\ Then(Call(3, NoLoc, "legacy_assignment", NoLoc), ret)
          ELSE IF \/ t.type = "Numeric_constants"
                  \/ t.type = "Special_characters" /\ t.value = "("
                  \/ t.type = "Keywords" /\ t.value \in {"true", "false"}
          THEN Stay /\ Then(Call(4, NoLoc, "legacy_expression", NoLoc), ret)
          ELSE legacy_raise("statement")
    \/ /\ At("legacy_statement", 1)
       /\ Stay
       /\ Then(Popped, ret)
    \/ /\ At("legacy_statement", 2)
       /\ legacy_eat_value("}")
       /\ Then(Popped, [type |-> "block", body |-> ret.items])
    \/ /\ At("legacy_statement", 3)
       /\ legacy_eat_value(";")
       /\ Then(Popped, ret)
    \/ /\ At("legacy_statement", 4)
       /\ legacy_eat_value(";")
       /\ Then(Popped, [type |-> "expr_stmt", expr |-> ret])

\* Parser.declaration_or_function
legacy_declaration_or_function ==
    \/ /\ At("legacy_declaration_or_function", 0)
       /\ legacy_eat("Keywords")
       /\ Then(Goto(1, [type_name |-> current_token.value]), ret)
    \/ /\ At("legacy_declaration_or_function", 1)
       /\ IF current_token # None /\ current_token.type = "Identifiers"
          THEN /\ legacy_eat("Identifiers")
               /\ Then(Goto(2, [type_name |-> Top.loc.type_name,
                                name |-> current_token.value]), ret)
          ELSE legacy_raise("identifier")
    \/ /\ At("legacy_declaration_or_function", 2)
       /\ IF current_token # None /\ IsSp("(")
          THEN /\ legacy_eat_value("(")
               /\ Then(Goto(3, [type_name |-> Top.loc.type_name, name |-> Top.loc.name,
                                params |-> <<>>]), ret)
          ELSE /\ legacy_eat_value(";")
               /\ Then(Popped, [type |-> "declaration", var_type |-> Top.loc.type_name,
                                name |-> Top.loc.name])
    \/ /\ At("legacy_declaration_or_function", 3)
       /\ IF current_token # None /\ ~IsSp(")")
          THEN IF current_token.type # "Keywords"
               THEN legacy_raise("parameter type")
               ELSE /\ legacy_eat("Keywords")
                    /\ Then(Goto(5, [Top.loc EXCEPT !.params =
                                 Append(@, [type |-> current_token.value])]), ret)
          ELSE /\ legacy_eat_value(")")
               /\ Then(Call(7, Top.loc, "legacy_statement", NoLoc), ret)
    \/ /\ At("legacy_declaration_or_function", 4)
       /\ IF current_token = None THEN Faults
          ELSE IF current_token.type # "Keywords"
          THEN legacy_raise("parameter type")
          ELSE /\ legacy_eat("Keywords")
               /\ Then(Goto(5, [Top.loc EXCEPT !.params =
                            Append(@, [type |-> current_token.value])]), ret)
    \/ /\ At("legacy_declaration_or_function", 5)
       /\ IF current_token = None THEN Faults
          ELSE IF current_token.type # "Identifiers"
          THEN legacy_raise("parameter name")
          ELSE /\ legacy_eat("Identifiers")
               /\ LET n == Len(Top.loc.params)
                      ptype == Top.loc.params[n].type
                  IN Then(Goto(6, [Top.loc EXCEPT !.params[n] =
                               [type |-> ptype, name |-> current_token.value]]), ret)
    \/ /\ At("legacy_declaration_or_function", 6)
       /\ IF current_token = None THEN Faults
          ELSE IF IsSp(",")
          THEN /\ legacy_eat("Special_characters")
               /\ Then(Goto(4, Top.loc), ret)
          ELSE /\ legacy_eat_value(")")
               /\ Then(Call(7, Top.loc, "legacy_statement", NoLoc), ret)
    \/ /\ At("legacy_declaration_or_function", 7)
       /\ Stay
       /\ Then(Popped, [type |-> "function_def", return_type |-> Top.loc.type_name,
                        name |-> Top.loc.name, params |-> Top.loc.params, body |-> ret])

\* Parser.assignment
legacy_assignment ==
    \/ /\ At("legacy_assignment", 0)
       /\ IF ~(current_token # None /\ current_token.type = "Identifiers")
          THEN legacy_raise("identifier")
          ELSE /\ legacy_eat("Identifiers")
               /\ Then(Goto(1, [name |-> current_token.value]), ret)
    \/ /\ At("legacy_assignment", 1)
       /\ legacy_eat_value("=")
       /\ Then(Call(2, Top.loc, "legacy_expression", NoLoc), ret)
    \/ /\ At("legacy_assignment", 2)
       /\ Stay
       /\ Then(Popped, [type |-> "assignment", target |-> Top.loc.name, value |-> ret])

\* legacy_else_clause where an if that is itself the then branch of an if
\* leaves a following else to the outer if.
legacy_else_to_outer ==
    \/ /\ At("legacy_if_statement", 3)
       /\ IF /\ current_token # None
             /\ current_token.type = "Keywords"
             /\ current_token.value = "else"
             /\ ~(/\ Len(stack) >= 3
                  /\ stack[Len(stack) - 2].proc = "legacy_if_statement"
                  /\ stack[Len(stack) - 2].pc = 3)
          THEN /\ legacy_eat_value("else")
               /\ Then(Call(4, [cond |-> Top.loc.cond, then_branch |-> ret],
                            "legacy_statement", NoLoc), ret)
          ELSE /\ Stay
               /\ Then(Popped, [type |-> "if", cond |-> Top.loc.cond, then |-> ret,
                                else |-> None])
    \/ /\ At("legacy_if_statement", 4)
       /\ Stay
       /\ Then(Popped, [type |-> "if", cond |-> Top.loc.cond,
                        then |-> Top.loc.then_branch, else |-> ret])

\* The else clause of Parser.if_statement: the then branch has just been
\* parsed; an else keyword here belongs to this if.
legacy_else_clause ==
    \/ /\ At("legacy_if_statement", 3)
       /\ IF /\ current_token # None
             /\ current_token.type = "Keywords"
             /\ current_token.value = "else"
          THEN /\ legacy_eat_value("else")
               /\ Then(Call(4, [cond |-> Top.loc.cond, then_branch |-> ret],
                            "legacy_statement", NoLoc), ret)
          ELSE /\ Stay
               /\ Then(Popped, [type |-> "if", cond |-> Top.loc.cond, then |-> ret,
                                else |-> None])
    \/ /\ At("legacy_if_statement", 4)
       /\ Stay
       /\ Then(Popped, [type |-> "if", cond |-> Top.loc.cond,
                        then |-> Top.loc.then_branch, else |-> ret])

\* Parser.if_statement
legacy_if_statement ==
    \/ /\ At("legacy_if_statement", 0)
       /\ legacy_eat_value("if")
       /\ Then(Goto(1, NoLoc), ret)
    \/ /\ At("legacy_if_statement", 1)
       /\ legacy_eat_value("(")
       /\ Then(Call(2, NoLoc, "legacy_expression", NoLoc), ret)
    \/ /\ At("legacy_if_statement", 2)
       /\ legacy_eat_value(")")
       /\ Then(Call(3, [cond |-> ret], "legacy_statement", NoLoc), ret)
    \/ legacy_else_clause

\* Parser.while_statement
legacy_while_statement ==
    \/ /\ At("legacy_while_statement", 0)
       /\ legacy_eat_value("while")
       /\ Then(Goto(1, NoLoc), ret)
    \/ /\ At("legacy_while_statement", 1)
       /\ legacy_eat_value("(")
       /\ Then(Call(2, NoLoc, "legacy_expression", NoLoc), ret)
    \/ /\ At("legacy_while_statement", 2)
       /\ legacy_eat_value(")")
       /\ Then(Call(3, [cond |-> ret], "legacy_statement", NoLoc), ret)
    \/ /\ At("legacy_while_statement", 3)
       /\ Stay
       /\ Then(Popped, [type |-> "while", cond |-> Top.loc.cond, body |-> ret])

\* legacy_for_condition that always parses a condition.
legacy_for_condition_required ==
    \/ /\ At("legacy_for_statement", 6)
       /\ IF current_token = None THEN Faults
          ELSE /\ Stay
               /\ Then(Call(7, Top.loc, "legacy_expression", NoLoc), ret)
    \/ /\ At("legacy_for_statement", 7)
       /\ legacy_eat_value(";")
       /\ Then(Goto(8, [init |-> Top.loc.init, cond |-> ret]), ret)

\* The condition clause of Parser.for_statement: no expression is parsed when
\* the current token is already the second ';'.
legacy_for_condition ==
    \/ /\ At("legacy_for_statement", 6)
       /\ IF current_token = None THEN Faults
          ELSE IF ~IsSp(";")
          THEN /\ Stay
               /\ Then(Call(7, Top.loc, "legacy_expression", NoLoc), ret)
          ELSE /\ legacy_eat_value(";")
               /\ Then(Goto(8, [init |-> Top.loc.init, cond |-> None]), ret)
    \/ /\ At("legacy_for_statement", 7)
       /\ legacy_eat_value(";")
       /\ Then(Goto(8, [init |-> Top.loc.init, cond |-> ret]), ret)

\* Parser.for_statement
legacy_for_statement ==
    \/ /\ At("legacy_for_statement", 0)
       /\ legacy_eat_value("for")
       /\ Then(Goto(1, NoLoc), ret)
    \/ /\ At("legacy_for_statement", 1)
       /\ legacy_eat_value("(")
       /\ Then(Goto(2, NoLoc), ret)
    \/ /\ At("legacy_for_statement", 2)
       /\ IF current_token = None THEN Faults
          ELSE IF ~IsSp(";")
          THEN IF current_token.type = "Keywords" /\ current_token.value \in BASIC_TYPES
               THEN /\ legacy_eat("Keywords")
                    /\ Then(Goto(3, [tname |-> current_token.value]), ret)
               ELSE /\ Stay
                    /\ Then(Call(4, NoLoc, "legacy_assignment", NoLoc), ret)
          ELSE /\ legacy_eat_value(";")
               /\ Then(Goto(6, [init |-> None]), ret)
    \/ /\ At("legacy_for_statement", 3)
       /\ IF current_token = None THEN Faults
          ELSE IF current_token.type # "Identifiers"
          THEN legacy_raise("identifier")
          ELSE /\ legacy_eat("Identifiers")
               /\ Then(Goto(5, [init |-> [type |-> "declaration",
                                          var_type |-> Top.loc.tname,
                                          name |-> current_token.value]]), ret)
    \/ /\ At("legacy_for_statement", 4)
       /\ legacy_eat_value(";")
       /\ Then(Goto(6, [init |-> ret]), ret)
    \/ /\ At("legacy_for_statement", 5)
       /\ legacy_eat_value(";")
       /\ Then(Goto(6, Top.loc), ret)
    \/ legacy_for_condition
    \/ /\ At("legacy_for_statement", 8)
       /\ IF current_token = None THEN Faults
          ELSE IF ~IsSp(")")
          THEN IF current_token.type = "Identifiers"
               THEN Stay /\ Then(Call(9, Top.loc, "legacy_assignment", NoLoc), ret)
               ELSE Stay /\ Then(Call(9, Top.loc, "legacy_expression", NoLoc), ret)
          ELSE /\ legacy_eat_value(")")
               /\ Then(Call(10, [init |-> Top.loc.init, cond |-> Top.loc.cond,
                                 update |-> None], "legacy_statement", NoLoc), ret)
    \/ /\ At("legacy_for_statement", 9)
       /\ legacy_eat_value(")")
       /\ Then(Call(10, [init |-> Top.loc.init, cond |-> Top.loc.cond,
                         update |-> ret], "legacy_statement", NoLoc), ret)
    \/ /\ At("legacy_for_statement", 10)
       /\ Stay
       /\ Then(Popped, [type |-> "for", init |-> Top.loc.init, cond |-> Top.loc.cond,
                        update |-> Top.loc.update, body |-> ret])

\* Parser.return_statement
legacy_return_statement ==
    \/ /\ At("legacy_return_statement", 0)
       /\ legacy_eat_value("return")
       /\ Then(Call(1, NoLoc, "legacy_expression", NoLoc), ret)
    \/ /\ At("legacy_return_statement", 1)
       /\ legacy_eat_value(";")
       /\ Then(Popped, [type |-> "return", expr |-> ret])

\* Parser.expression
legacy_expression ==
    \/ /\ At("legacy_expression", 0)
       /\ Stay
       /\ Then(Call(1, NoLoc, "legacy_logical_or", NoLoc), ret)
    \/ /\ At("legacy_expression", 1)
       /\ Stay
       /\ Then(Popped, ret)

\* binary_op with its operands the wrong way round.
binary_op_swapped(op, left, right) ==
    [type |-> "binary_op", op |-> op, left |-> right, right |-> left]

\* The binary node the loop of a precedence level builds.
binary_op(op, left, right) ==
    [type |-> "binary_op", op |-> op, left |-> left, right |-> right]

\* The while loop of a precedence level, with node as folded so far: on an
\* operator of ops, eat it and parse the right operand; else return node.
legacy_fold_loop(operand, ops, node) ==
    IF /\ current_token # None
       /\ current_token.type = "Operators"
       /\ current_token.value \in ops
    THEN /\ legacy_eat("Operators")
         /\ Then(Call(2, [node |-> node, op |-> current_token.value], operand, NoLoc), ret)
    ELSE /\ Stay
         /\ Then(Popped, node)

\* legacy_binary_level with the operators of additive and multiplicative
\* exchanged: multiplication binds looser than addition.
legacy_binary_level_swapped(p, operand, ops) ==
    LET used == IF p = "legacy_additive" THEN {"*", "/", "%"}
                ELSE IF p = "legacy_multiplicative" THEN {"+", "-"}
                ELSE ops
    IN \/ /\ At(p, 0)
          /\ Stay
          /\ Then(Call(1, NoLoc, operand, NoLoc), ret)
       \/ /\ At(p, 1)
          /\ legacy_fold_loop(operand, used, ret)
       \/ /\ At(p, 2)
          /\ legacy_fold_loop(operand, used, binary_op(Top.loc.op, Top.loc.node, ret))

\* One binary precedence level p over the next level operand.
legacy_binary_level(p, operand, ops) ==
    \/ /\ At(p, 0)
       /\ Stay
       /\ Then(Call(1, NoLoc, operand, NoLoc), ret)
    \/ /\ At(p, 1)
       /\ legacy_fold_loop(operand, ops, ret)
    \/ /\ At(p, 2)
       /\ legacy_fold_loop(operand, ops, binary_op(Top.loc.op, Top.loc.node, ret))

\* Parser.logical_or
legacy_logical_or == legacy_binary_level("legacy_logical_or", "legacy_logical_and", {"||"})

\* Parser.logical_and
legacy_logical_and == legacy_binary_level("legacy_logical_and", "legacy_equality", {"&&"})

\* Parser.equality
legacy_equality == legacy_binary_level("legacy_equality", "legacy_relational", {"==", "!="})

\* Parser.relational
legacy_relational ==
    legacy_binary_level("legacy_relational", "legacy_additive", {"<", ">", "<=", ">="})

\* Parser.additive
legacy_additive == legacy_binary_level("legacy_additive", "legacy_multiplicative", {"+", "-"})

\* Parser.multiplicative
legacy_multiplicative ==
    legacy_binary_level("legacy_multiplicative", "legacy_unary", {"*", "/", "%"})

\* Parser.unary
legacy_unary ==
    \/ /\ At("legacy_unary", 0)
       /\ IF /\ current_token # None
             /\ current_token.type = "Operators"
             /\ current_token.value \in {"+", "-", "!"}
          THEN /\ legacy_eat("Operators")
               /\ Then(Call(1, [op |-> current_token.value], "legacy_unary", NoLoc), ret)
          ELSE /\ Stay
               /\ Then(Call(2, NoLoc, "legacy_primary", NoLoc), ret)
    \/ /\ At("legacy_unary", 1)
       /\ Stay
       /\ Then(Popped, [type |-> "unary_op", op |-> Top.loc.op, operand |-> ret])
    \/ /\ At("legacy_unary", 2)
       /\ Stay
       /\ Then(Popped, ret)

\* Parser.primary
legacy_primary ==
    \/ /\ At("legacy_primary", 0)
       /\ LET t == current_token IN
          IF t = None THEN legacy_raise("primary expression")
          ELSE IF t.type = "Identifiers"
          THEN /\ legacy_eat("Identifiers")
               /\ Then(Popped, [type |-> "identifier", value |-> t.value])
          ELSE IF t.type = "Numeric_constants"
          THEN /\ legacy_eat("Numeric_constants")
               /\ Then(Popped, [type |-> "number", value |-> t.value])
          ELSE IF t.type = "Keywords" /\ t.value \in {"true", "false"}
          THEN /\ legacy_eat("Keywords")
               /\ Then(Popped, [type |-> "boolean", value |-> t.value])
          ELSE IF t.type = "Special_characters" /\ t.value = "("
          THEN /\ legacy_eat("Special_characters")
               /\ Then(Call(1, NoLoc, "legacy_expression", NoLoc), ret)
          ELSE legacy_raise("identifier, number, boolean, or (expression)")
    \/ /\ At("legacy_primary", 1)
       /\ legacy_eat_value(")")
       /\ Then(Popped, ret)

\* ------------------------------------------------------- the machine

\* ------------------------------------------------------- token lists
\* The token lists the parsers are run on.  Programs are derived from the
\* grammar, production by production; the other lists are programs cut
\* short, with one token dropped or one token added, and every short list
\* over a small alphabet.

\* Longest chain of operands joined by binary operators.
MaxOperands == 3

\* Deepest nesting of compound statements.
MaxNest == 2

\* Longest list of the exhaustive family.
MaxLen == 4

Cat(A, B) == {a \o b : a \in A, b \in B}

Cat3(A, B, C) == Cat(Cat(A, B), C)

One(t) == {<<t>>}

SEMI == One(Sp(";"))
LPAR == One(Sp("("))
RPAR == One(Sp(")"))
LBRACE == One(Sp("{"))
RBRACE == One(Sp("}"))

\* The type keywords of the statement table.
GrammarTypes == {"int", "float", "double", "bool", "char", "string", "void"}

\* The binary operators of a grammar profile, lowest precedence first.
GrammarLevels(g) ==
    IF g = "legacy"
    THEN <<{"||"}, {"&&"}, {"==", "!="}, {"<", ">", "<=", ">="}, {"+", "-"},
           {"*", "/", "%"}>>
    ELSE <<{"==", "!=", "<", "<=", ">", ">="}, {"+", "-"}, {"*", "/"}>>

GrammarOps(g) == UNION {GrammarLevels(g)[i] : i \in DOMAIN GrammarLevels(g)}

\* Primary expressions: identifier, number, boolean literal, ( expression ).
Primaries == {<<Id("a")>>, <<Num("5")>>, <<Kw("true")>>, <<Sp("("), Id("b"), Sp(")")>>}

\* The i-th operand of a chain: identifiers and numbers in turn.
Operand(i) == IF i % 2 = 1 THEN <<Id("a")>> ELSE <<Num("5")>>

\* Every chain of n operands joined by operators of ops.
RECURSIVE Chains(_, _)
Chains(n, ops) ==
    IF n = 1 THEN {Operand(1)}
    ELSE {c \o <<Op(o)>> \o Operand(n) : c \in Chains(n - 1, ops), o \in ops}

\* x a y m z and x m y a z over all primaries.
PrecedenceExprs ==
    UNION {{x \o <<Op(a)>> \o y \o <<Op(m)>> \o z, x \o <<Op(m)>> \o y \o <<Op(a)>> \o z} :
           x \in Primaries, y \in Primaries, z \in Primaries,
           a \in {"+", "-"}, m \in {"*", "/", "%"}}

\* Operands under unary prefixes (the full grammar only).
UnaryExprs ==
    {<<Op(u)>> \o p : u \in {"+", "-", "!"}, p \in {<<Id("a")>>, <<Op("-"), Num("5")>>}}
    \cup {<<Id("a"), Op(o), Op("-"), Num("5")>> : o \in {"-", "*", "&&"}}

\* Expressions of a profile.
Exprs(g) ==
    UNION {Chains(n, GrammarOps(g)) : n \in 1..MaxOperands}
    \cup (IF g = "legacy" THEN PrecedenceExprs \cup UnaryExprs \cup Primaries
          ELSE {e \in PrecedenceExprs : \A i \in DOMAIN e : e[i] # Op("%")} \cup Primaries)

\* The expressions that may start an expression statement (the full grammar
\* only): those starting with a number, a boolean literal or a parenthesis.
StatementExprs ==
    {e \in Primaries \cup PrecedenceExprs :
        \/ e[1].type = "Numeric_constants"
        \/ e[1] = Sp("(")
        \/ e[1] \in {Kw("true"), Kw("false")}}

\* The expressions used inside statements.
Conds == {<<Id("a")>>, <<Id("a"), Op("<"), Num("5")>>}

Assign(E) == Cat3({<<Id("x"), Op("=")>>}, E, SEMI)

\* Function definitions (the full grammar only).
Params == {<<>>, <<Kw("int"), Id("a")>>, <<Kw("int"), Id("a"), Sp(","), Kw("bool"), Id("b")>>}

FunctionDefs ==
    {<<Kw(t), Id("f"), Sp("(")>> \o ps \o <<Sp(")")>> \o body :
        t \in {"int", "void"}, ps \in Params,
        body \in {<<Sp("{"), Sp("}")>>, <<Sp("{"), Kw("return"), Id("a"), Sp(";"), Sp("}")>>}}

\* Statements without a statement inside.
Simple(g) ==
    {<<Kw("int"), Id("x"), Sp(";")>>, <<Id("x"), Op("="), Num("5"), Sp(";")>>,
     <<Kw("return"), Id("x"), Sp(";")>>, <<Sp("{"), Sp("}")>>}
    \cup (IF g = "legacy" THEN {<<Num("5"), Sp(";")>>} ELSE {})

\* for ( init ; condition? ; update ): the condition may be absent and the
\* update may be a bare expression in the full grammar only.
ForHeads(g) ==
    LET init == {<<Id("i"), Op("="), Num("5")>>, <<Kw("int"), Id("i")>>}
        cond == {<<Id("i"), Op("<"), Num("5")>>} \cup (IF g = "legacy" THEN {<<>>} ELSE {})
        update == {<<Id("i"), Op("="), Id("i"), Op("+"), Num("5")>>}
                  \cup (IF g = "legacy" THEN {<<Num("5")>>} ELSE {})
    IN {<<Kw("for"), Sp("(")>> \o i \o <<Sp(";")>> \o c \o <<Sp(";")>> \o u \o <<Sp(")")>> :
           i \in init, c \in cond, u \in update}

\* Statements of nesting depth at most d.
RECURSIVE Stmts(_, _)
Stmts(g, d) ==
    IF d = 0 THEN Simple(g)
    ELSE LET S == Stmts(g, d - 1)
             IfHead == <<Kw("if"), Sp("("), Id("a"), Sp(")")>>
             WhileHead == <<Kw("while"), Sp("("), Id("a"), Op("<"), Num("5"), Sp(")")>>
             ForHead == <<Kw("for"), Sp("("), Id("i"), Op("="), Num("5"), Sp(";"),
                          Id("i"), Op("<"), Num("5"), Sp(";"),
                          Id("i"), Op("="), Num("5"), Sp(")")>>
             Else == {<<Kw("else"), Id("y"), Op("="), Num("5"), Sp(";")>>,
                      <<Kw("else"), Sp("{"), Sp("}")>>}
         IN Simple(g)
            \cup Cat3(LBRACE, S, RBRACE)
            \cup Cat({IfHead}, S)
            \cup Cat3({IfHead}, S, Else)
            \cup Cat({WhileHead}, S)
            \cup Cat({ForHead}, S)

\* if ( c ) if ( d ) S1 else S2
DanglingElse(g) ==
    {<<Kw("if"), Sp("("), Id(c), Sp(")"), Kw("if"), Sp("("), Id(d), Sp(")")>>
        \o s1 \o <<Kw("else")>> \o s2 :
        c \in {"a", "b"}, d \in {"a", "b"}, s1 \in Simple(g), s2 \in Simple(g)}

\* Programs of a profile: a statement list.
Programs(g) ==
    {<<>>}
    \cup DanglingElse(g)
    \cup Stmts(g, MaxNest)
    \cup Cat(Simple(g), Simple(g))
    \cup Cat3(LBRACE, Cat(Simple(g), Simple(g)), RBRACE)
    \cup Cat(ForHeads(g), Simple(g))
    \cup Assign(Exprs(g))
    \cup Cat3(One(Kw("return")), Primaries, SEMI)
    \cup {<<Kw(t), Id("x"), Sp(";")>> : t \in GrammarTypes}
    \cup {<<Kw("for"), Sp("("), Kw(t), Id("i"), Sp(";"), Id("i"), Op("<"), Num("5"), Sp(";"),
            Id("i"), Op("="), Num("5"), Sp(")"), Sp("{"), Sp("}")>> : t \in GrammarTypes}
    \cup (IF g = "legacy" THEN FunctionDefs \cup Cat(StatementExprs, SEMI) ELSE {})

AllPrograms == Programs("minimal") \cup Programs("legacy")

\* bool val; val = (5 > 3) == true;  (tests/test_parser.py, "Complex Logic
\* and Parentheses")
ComplexLogic ==
    <<Kw("bool"), Id("val"), Sp(";"),
      Id("val"), Op("="), Sp("("), Num("5"), Op(">"), Num("3"), Sp(")"), Op("=="),
      Kw("true"), Sp(";")>>

\* The programs that are cut short, shortened and lengthened.
Seeds ==
    Stmts("legacy", 1) \cup FunctionDefs \cup {ComplexLogic}
    \cup Cat(ForHeads("legacy"), {<<Sp("{"), Sp("}")>>})
    \cup {<<Kw("string"), Id("x"), Sp(";")>>,
          <<Id("x"), Op("="), Id("a"), Op("+"), Num("5"), Op("*"), Sp("("), Id("b"), Sp(")"),
            Sp(";")>>,
          <<Kw("if"), Sp("("), Id("a"), Sp(")"), Kw("if"), Sp("("), Id("b"), Sp(")"),
            Id("x"), Op("="), Num("5"), Sp(";"), Kw("else"), Id("y"), Op("="), Num("5"),
            Sp(";")>>}

Prefixes(S) == UNION {{SubSeq(s, 1, n) : n \in 0..Len(s)} : s \in S}

Drops(S) ==
    UNION {{SubSeq(s, 1, i - 1) \o SubSeq(s, i + 1, Len(s)) : i \in 1..Len(s)} : s \in S}

Stray == {Sp("}"), Sp("{"), Sp(")"), Sp(";"), Kw("else"), Op("+"), Cm("//"), Num("5")}

Inserts(S) ==
    UNION {{SubSeq(s, 1, i) \o <<t>> \o SubSeq(s, i + 1, Len(s)) : i \in 0..Len(s), t \in Stray}
           : s \in S}

Alphabet == {Sp("{"), Sp("}"), Id("x"), Op("="), Num("5"), Sp(";")}

RECURSIVE Lists(_)
Lists(n) ==
    IF n = 0 THEN {<<>>}
    ELSE Lists(n - 1) \cup {Append(l, t) : l \in {m \in Lists(n - 1) : Len(m) = n - 1},
                                           t \in Alphabet}

Inputs ==
    AllPrograms \cup Prefixes(Seeds) \cup Drops(Seeds) \cup Inserts(Seeds)
    \cup Lists(MaxLen)


\* Parser.__init__ of either file, on a token list of Inputs, before parse().
Init ==
    /\ variant \in {"minimal", "legacy"}
    /\ \E raw \in Inputs :
          tokens = IF variant = "minimal"
                   THEN SelectSeq(raw, LAMBDA t : t.type # "Comments")
                   ELSE raw
    /\ pos = 0
    /\ current_token = IF tokens # <<>> THEN tokens[1] ELSE None
    /\ stack = <<[proc |-> IF variant = "minimal" THEN "parse" ELSE "legacy_parse",
                   pc |-> 0, loc |-> NoLoc, entry |-> 0]>>
    /\ ret = None
    /\ outcome = "running"
    /\ err = None
    /\ last_call = None

Next ==
    \/ parse \/ program \/ statement_list \/ statement \/ block
    \/ declaration \/ assignment \/ if_statement \/ while_statement
    \/ for_statement \/ return_statement
    \/ expression \/ comparison \/ term \/ factor
    \/ legacy_parse \/ legacy_program \/ legacy_statement_list \/ legacy_statement
    \/ legacy_declaration_or_function \/ legacy_assignment \/ legacy_if_statement
    \/ legacy_while_statement \/ legacy_for_statement \/ legacy_return_statement
    \/ legacy_expression \/ legacy_logical_or \/ legacy_logical_and \/ legacy_equality
    \/ legacy_relational \/ legacy_additive \/ legacy_multiplicative
    \/ legacy_unary \/ legacy_primary

Spec == Init /\ [][Next]_vars

\* ------------------------------------------------------------ claims

Done == outcome # "running"

Minimal == variant = "minimal"

Legacy == variant = "legacy"

ProgramsMinimal == Programs("minimal")

ProgramsLegacy == Programs("legacy")

\* The token list is a program of the grammar of the parser that is run.
Derivable == IF Minimal THEN tokens \in ProgramsMinimal ELSE tokens \in ProgramsLegacy

\* C1: every program derivable from the grammar of the variant that is run is
\* accepted by parse(), with the cursor at the end of the input (pos equal
\* to len(tokens), no current token).
C1_DerivableAccepted ==
    (Done /\ Derivable) =>
        /\ outcome = "Accepted"
        /\ pos = Len(tokens)
        /\ current_token = None

\* C2: parse() ends in one of two ways only, the accept verdict or a
\* SyntaxError; when the input ends in the middle of a construct the
\* SyntaxError states the end of input, and nothing else is ever raised.
C2_AcceptOrSyntaxError ==
    /\ outcome \in {"running", "Accepted", "SyntaxError"}
    /\ (outcome = "SyntaxError" /\ pos = Len(tokens)) => err.at_end

\* The running procedure is where the ';' ending a declaration, an assignment
\* statement, a return statement or an expression statement is required.
SemicolonRequired ==
    \/ At("statement", 2)
    \/ At("return_statement", 1)
    \/ At("legacy_statement", 3)
    \/ At("legacy_statement", 4)
    \/ At("legacy_return_statement", 1)
    \/ At("legacy_declaration_or_function", 2) /\ current_token # Sp("(")

\* The message of an error names the text v.
Names(e, v) == \E i \in DOMAIN e.message : e.message[i] = v

\* C3: where the terminating ';' of a statement is required and the current
\* token is anything else, or the input has ended, the step raises a
\* SyntaxError whose message names ';'.
C3_MissingSemicolonNamed ==
    [][(SemicolonRequired /\ current_token # Sp(";"))
        => (outcome' = "SyntaxError" /\ Names(err', ";"))]_vars

\* How many of the first n tokens of l are the token t.
Count(l, t, n) == Cardinality({i \in 1..n : l[i] = t})

\* No prefix of l closes more braces than it opened, and l closes them all.
Balanced(l) ==
    /\ \A n \in 1..Len(l) : Count(l, Sp("}"), n) <= Count(l, Sp("{"), n)
    /\ Count(l, Sp("}"), Len(l)) = Count(l, Sp("{"), Len(l))

SimpleMinimal == Simple("minimal")

SimpleLegacy == Simple("legacy")

NestedMinimal == Stmts("minimal", 1)

NestedLegacy == Stmts("legacy", 1)

\* An accepted statement followed by one '}' that nothing opened.
StrayClose ==
    /\ tokens # <<>>
    /\ tokens[Len(tokens)] = Sp("}")
    /\ SubSeq(tokens, 1, Len(tokens) - 1) \in (IF Minimal THEN NestedMinimal ELSE NestedLegacy)

\* A '{' and a statement, and the input ends.
Unclosed ==
    /\ tokens # <<>>
    /\ tokens[1] = Sp("{")
    /\ Tail(tokens) \in (IF Minimal THEN SimpleMinimal ELSE SimpleLegacy)

\* C4: parse() accepts only token lists whose braces are balanced; a '{' left
\* open is rejected at the end of the input, and a '}' that nothing opened
\* is rejected by the check parse() makes after the statement list.
C4_AcceptedBalanced ==
    /\ outcome = "Accepted" => Balanced(tokens)
    /\ (Done /\ Unclosed) => (outcome = "SyntaxError" /\ err.at_end)
    /\ (Done /\ StrayClose) =>
          /\ outcome = "SyntaxError"
          /\ Top.proc \in {"parse", "legacy_parse"}
          /\ err.found = Sp("}")

\* A list with a block inside a block is accepted.
C4_Witness ==
    /\ outcome = "Accepted"
    /\ Count(tokens, Sp("{"), Len(tokens)) >= 2

\* A list with an unclosed block and one with a stray '}' have been rejected.
C4_WitnessRejected ==
    /\ Done
    /\ Unclosed \/ StrayClose

\* The tree nodes the claims expect, written out field by field.
Bin(o, l, r) == [type |-> "binary_op", op |-> o, left |-> l, right |-> r]

\* The node of a primary: of an identifier, a number, a boolean literal, or
\* of the identifier inside parentheses.
PrimaryNode(p) ==
    LET t == IF p[1] = Sp("(") THEN p[2] ELSE p[1] IN
    IF t.type = "Identifiers" THEN [type |-> "identifier", value |-> t.value]
    ELSE IF t.type = "Numeric_constants" THEN [type |-> "number", value |-> t.value]
    ELSE [type |-> "boolean", value |-> t.value]

\* x = e ;
AssignmentOf(e) == <<Id("x"), Op("=")>> \o e \o <<Sp(";")>>

\* The tree of the program x = e ; where node is the tree of e.
ProgramOf(node) ==
    [type |-> "program",
     body |-> <<[type |-> "assignment", target |-> "x", value |-> node]>>]

PrecedencePrograms == Assign(PrecedenceExprs)

\* C5: in the tree-building parser x a y m z, with a additive and m
\* multiplicative, is the node a with left child x and right child m(y, z),
\* and x m y a z is the node a with left child m(x, y) and right child z.
C5_Precedence ==
    (Legacy /\ Done /\ tokens \in PrecedencePrograms) =>
        \A x \in Primaries, y \in Primaries, z \in Primaries,
           a \in {"+", "-"}, m \in {"*", "/", "%"} :
            /\ tokens = AssignmentOf(x \o <<Op(a)>> \o y \o <<Op(m)>> \o z) =>
                  /\ outcome = "Accepted"
                  /\ ret = ProgramOf(Bin(a, PrimaryNode(x),
                                         Bin(m, PrimaryNode(y), PrimaryNode(z))))
            /\ tokens = AssignmentOf(x \o <<Op(m)>> \o y \o <<Op(a)>> \o z) =>
                  /\ outcome = "Accepted"
                  /\ ret = ProgramOf(Bin(a, Bin(m, PrimaryNode(x), PrimaryNode(y)),
                                         PrimaryNode(z)))

\* x = 5 + 5 * 5 ; has been parsed into + with right child *.
C5_Witness ==
    /\ Legacy
    /\ outcome = "Accepted"
    /\ tokens = AssignmentOf(<<Num("5"), Op("+"), Num("5"), Op("*"), Num("5")>>)
    /\ ret.body[1].value.op = "+"
    /\ ret.body[1].value.right.op = "*"

\* Chains whose operators all belong to one precedence level.
SameLevelChains ==
    UNION {Chains(n, GrammarLevels("legacy")[i]) :
           n \in 2..MaxOperands, i \in DOMAIN GrammarLevels("legacy")}

ChainPrograms == Assign(SameLevelChains)

\* The left fold of the first k operands of chain c.
RECURSIVE LeftFold(_, _)
LeftFold(c, k) ==
    IF k = 1 THEN PrimaryNode(<<c[1]>>)
    ELSE Bin(c[2 * k - 2].value, LeftFold(c, k - 1), PrimaryNode(<<c[2 * k - 1]>>))

\* C6: in the tree-building parser every binary level is left-associative:
\* x1 o1 x2 o2 ... xn, with o1..o(n-1) of one level, is the left fold
\* o(n-1)(... o2(o1(x1, x2), x3) ..., xn).
C6_LeftAssociative ==
    (Legacy /\ Done /\ tokens \in ChainPrograms) =>
        LET c == SubSeq(tokens, 3, Len(tokens) - 1) IN
        /\ outcome = "Accepted"
        /\ ret = ProgramOf(LeftFold(c, (Len(c) + 1) \div 2))

\* x = a - 5 - a ; has been parsed into -(-(a, 5), a).
C6_Witness ==
    /\ Legacy
    /\ outcome = "Accepted"
    /\ tokens = AssignmentOf(<<Id("a"), Op("-"), Num("5"), Op("-"), Id("a")>>)
    /\ ret.body[1].value.left.op = "-"
    /\ ret.body[1].value.right.type = "identifier"

Range(l) == {l[i] : i \in DOMAIN l}

\* The statements directly inside a statement node.
Children(n) ==
    IF n.type \in {"program", "block"} THEN Range(n.body)
    ELSE IF n.type \in {"while", "for", "function_def"} THEN {n.body}
    ELSE IF n.type = "if" THEN {n.then} \cup (IF n.else = None THEN {} ELSE {n.else})
    ELSE {}

RECURSIVE Nodes(_)
Nodes(n) == {n} \cup UNION {Nodes(c) : c \in Children(n)}

\* The statement ends with an if that has no else: an else that followed
\* it would belong to that if.
RECURSIVE OpenIf(_)
OpenIf(n) ==
    IF n.type = "if" THEN (IF n.else = None THEN TRUE ELSE OpenIf(n.else))
    ELSE IF n.type \in {"while", "for", "function_def"} THEN OpenIf(n.body)
    ELSE FALSE

DanglingMinimal == DanglingElse("minimal")

DanglingLegacy == DanglingElse("legacy")

IfFrames == {i \in DOMAIN stack : stack[i].proc \in {"if_statement", "legacy_if_statement"}}

\* C7: an else is consumed by the innermost if whose then branch has just
\* finished.  In a tree no if with an else has a then branch that ends with
\* an if without else; if (a) if (b) S1 else S2 is an if without else
\* around an if with the else; and in either parser the if that has taken
\* the else of such a program is inside the then branch of the outer if.
C7_ElseToNearestIf ==
    /\ (Legacy /\ outcome = "Accepted") =>
          \A n \in Nodes(ret) : (n.type = "if" /\ n.else # None) => ~OpenIf(n.then)
    /\ (Legacy /\ Done /\ tokens \in DanglingLegacy) =>
          /\ outcome = "Accepted"
          /\ Len(ret.body) = 1
          /\ ret.body[1].type = "if"
          /\ ret.body[1].else = None
          /\ ret.body[1].then.type = "if"
          /\ ret.body[1].then.else # None
    /\ (Minimal /\ Done /\ tokens \in DanglingMinimal) => outcome = "Accepted"
    /\ (tokens \in DanglingMinimal \cup DanglingLegacy) =>
          \A i \in IfFrames : stack[i].pc = 4 =>
              \E j \in IfFrames : j < i /\ stack[j].pc = 3

\* if (a) if (b) x = 5; else x = 5; has been parsed by the tree-building
\* parser: the else branch sits in the inner if.
C7_Witness ==
    /\ Legacy
    /\ outcome = "Accepted"
    /\ tokens \in DanglingLegacy
    /\ tokens[3] = Id("a") /\ tokens[7] = Id("b")
    /\ ret.body[1].then.else.type = "assignment"

\* The call of eat or eat_value c matches the token t.
Matches(c, t) ==
    /\ t # None
    /\ c.token_type # NoValue => t.type = c.token_type
    /\ c.value # NoValue => t.value = c.value

\* C8: the cursor moves only in a call of eat or eat_value, by one token,
\* and only if the current token has the category asked for and, where a
\* text is asked for, that text; any other call raises SyntaxError and
\* leaves pos and current_token as they are.
C8_AdvanceGuarded ==
    [][LET c == last_call' IN
       IF c = None THEN pos' = pos /\ current_token' = current_token
       ELSE IF Matches(c, current_token)
       THEN /\ pos' = pos + 1
            /\ current_token' = IF pos' < Len(tokens) THEN tokens[pos' + 1] ELSE None
            /\ outcome' = "running"
       ELSE /\ outcome' = "SyntaxError"
            /\ pos' = pos
            /\ current_token' = current_token]_vars

\* A call for a text has been refused on a token of the right category and
\* another text, after tokens were consumed.
C8_Witness ==
    /\ outcome = "SyntaxError"
    /\ last_call # None
    /\ pos > 0
    /\ current_token # None
    /\ last_call.value # NoValue
    /\ last_call.op = "eat"
    /\ current_token.type = last_call.token_type
    /\ current_token.value # last_call.value

\* for ( init ; ; update ) statement, with no condition.
EmptyConditionFors ==
    {<<Kw("for"), Sp("(")>> \o i \o <<Sp(";"), Sp(";"), Id("i"), Op("="), Id("i"), Op("+"),
       Num("5"), Sp(")")>> \o b :
       i \in {<<Id("i"), Op("="), Num("5")>>, <<Kw("int"), Id("i")>>},
       b \in Simple("minimal")}

\* for-statements with one of the two ';' left out.
ForsMissingSemicolon ==
    UNION {{SubSeq(s, 1, k - 1) \o SubSeq(s, k + 1, Len(s)) :
               k \in {n \in DOMAIN s : s[n] = Sp(";")}} :
           s \in Cat(ForHeads("legacy"), {<<Sp("{"), Sp("}")>>})}

\* for-statements cut where a ';' is required: after init, after a condition.
ForsCutAtSemicolon ==
    {<<Kw("for"), Sp("(")>> \o i \o c :
        i \in {<<Id("i"), Op("="), Num("5")>>, <<Kw("int"), Id("i")>>},
        c \in {<<>>, <<Sp(";"), Id("i"), Op("<"), Num("5")>>}}

\* C9 as claimed: the condition of a for-statement is optional in both
\* parsers, so for ( init ; ; update ) statement is accepted, and a
\* for-statement that lacks one of its two ';' is a SyntaxError.
C9_ConditionOptional ==
    /\ (Done /\ tokens \in EmptyConditionFors) => outcome = "Accepted"
    /\ (Done /\ tokens \in ForsMissingSemicolon \cup ForsCutAtSemicolon) =>
          outcome = "SyntaxError"

\* C9 as amended: the tree-building parser takes a for-statement without a
\* condition (the tree's cond is None); the verdict-only parser requires
\* the condition and raises a SyntaxError in factor at the second ';'; in
\* both, another token or the end of input where a ';' is required is a
\* SyntaxError.
C9_ConditionOptionalInLegacy ==
    /\ (Legacy /\ Done /\ tokens \in EmptyConditionFors) =>
          /\ outcome = "Accepted"
          /\ ret.body[1].type = "for"
          /\ ret.body[1].cond = None
          /\ ret.body[1].update.type = "assignment"
    /\ (Minimal /\ Done /\ tokens \in EmptyConditionFors) =>
          /\ outcome = "SyntaxError"
          /\ Top.proc = "factor"
          /\ err.found = Sp(";")
          /\ tokens[pos] = Sp(";")
    /\ (Done /\ tokens \in ForsMissingSemicolon \cup ForsCutAtSemicolon) =>
          outcome = "SyntaxError"
    /\ (Done /\ tokens \in ForsCutAtSemicolon) => err.at_end

\* The tree-building parser has accepted for ( i = 5 ; ; i = i + 5 ) { }
\* and the for node has no condition.
C9_Witness ==
    /\ Legacy
    /\ outcome = "Accepted"
    /\ tokens \in EmptyConditionFors
    /\ tokens[3] = Id("i")
    /\ tokens[Len(tokens)] = Sp("}")
    /\ ret.body[1].cond = None

\* T x ; and for ( T i ; i < 5 ; i = 5 ) { } for each type keyword T.
TypeKeywordPrograms ==
    {<<Kw(t), Id("x"), Sp(";")>> : t \in GrammarTypes}
    \cup {<<Kw("for"), Sp("("), Kw(t), Id("i"), Sp(";"), Id("i"), Op("<"), Num("5"), Sp(";"),
            Id("i"), Op("="), Num("5"), Sp(")"), Sp("{"), Sp("}")>> : t \in GrammarTypes}

\* C10: each of int, float, double, bool, char, string and void selects the
\* declaration at a statement position and in the init clause of a for:
\* T x ; and for ( T i ; ... ) are accepted for every one of them.
C10_TypeKeywordsDeclare ==
    (Done /\ tokens \in TypeKeywordPrograms) => outcome = "Accepted"

\* The interpreter always runs the next step of a parse that has not ended.
\* Every step moves the control state: the cursor, the outcome, or the
\* procedures on the stack and their positions.
control == <<pos, outcome, [i \in DOMAIN stack |-> <<stack[i].proc, stack[i].pc>>]>>

FairSpec == Spec /\ WF_control(Next)

\* The procedures that may return without consuming a token: a statement
\* list may be empty.
MayBeEmpty ==
    {"parse", "program", "statement_list",
     "legacy_parse", "legacy_program", "legacy_statement_list"}

\* The running procedure returns to its caller.
Returns == outcome' = "running" /\ Len(stack') = Len(stack) - 1

\* C11: parse() terminates.  Every call that returns, other than that of a
\* statement list, has advanced the cursor, so every iteration of a
\* statement-list loop (a call of statement), of a binary-operator loop (an
\* eat of the operator and a call of the operand) and of the parameter loop
\* advances or raises; a procedure called while a call of it is active was
\* called at a later cursor; the cursor, which counts the advances, never
\* exceeds len(tokens); and the parse eventually accepts or raises.
C11_Terminates ==
    /\ [][Returns /\ Top.proc \notin MayBeEmpty => pos' > Top.entry]_vars
    /\ [](\A i \in DOMAIN stack : \A j \in DOMAIN stack :
            (i < j /\ stack[i].proc = stack[j].proc) => stack[i].entry < stack[j].entry)
    /\ [](pos <= Len(tokens))
    /\ <>Done

\* A parse has ended after a procedure was entered inside a primary, inside a
\* statement inside a statement list that has taken a statement before.
C11_Witness ==
    /\ Done
    /\ pos >= 6
    /\ \E i \in DOMAIN stack : \E j \in DOMAIN stack :
          /\ i < j
          /\ stack[i].proc = stack[j].proc
          /\ stack[i].proc \in {"legacy_primary", "factor", "statement", "legacy_statement"}

\* The tokens that start a statement in the statement table of a profile.
StartsStatement(g, t) ==
    \/ t.type = "Keywords" /\ t.value \in GrammarTypes \cup {"if", "while", "for", "return"}
    \/ t.type = "Identifiers"
    \/ t = Sp("{")
    \/ /\ g = "legacy"
       /\ \/ t.type = "Numeric_constants"
          \/ t = Sp("(")
          \/ t.type = "Keywords" /\ t.value \in {"true", "false"}

Leftover == err.found # None /\ ~StartsStatement(variant, err.found)

\* parse() itself has decided: it has accepted, or it has raised after the
\* statement list returned.
ParseDecided == Done /\ Len(stack) <= 1

\* The error was raised by statement, called by the top-level statement
\* list, on the token it was to start with.
TopLevelStatementError ==
    /\ outcome = "SyntaxError"
    /\ Len(stack) = 4
    /\ Top.proc \in {"statement", "legacy_statement"}
    /\ Top.pc = 0

AfterValidProgram ==
    IF Minimal THEN <<"Unexpected tokens after valid program">>
    ELSE <<"expected", "end of input">>

\* C12 as claimed: once the top-level statement list has stopped, parse()
\* accepts exactly if the cursor is at the end and otherwise raises the
\* error for tokens after a valid program; and a token at top level that
\* cannot start a statement gets that error, not the error of statement.
C12_LeftoverReportedByParse ==
    /\ ParseDecided => (outcome = "Accepted" <=> pos = Len(tokens))
    /\ (ParseDecided /\ outcome # "Accepted") =>
          /\ outcome = "SyntaxError"
          /\ err.found = tokens[pos + 1]
          /\ err.message = AfterValidProgram
    /\ TopLevelStatementError => ~Leftover

\* C12 as amended: the first two parts as claimed, the message of the
\* tree-building parser being "expected end of input".  In the verdict-only
\* parser every token at top level that cannot start a statement is reported
\* by parse(); in the tree-building parser only '}' is, and any other such
\* token is reported by statement as "expected statement".
C12_LeftoverReported ==
    /\ ParseDecided => (outcome = "Accepted" <=> pos = Len(tokens))
    /\ (ParseDecided /\ outcome # "Accepted") =>
          /\ outcome = "SyntaxError"
          /\ err.found = tokens[pos + 1]
          /\ err.message = AfterValidProgram
          /\ Leftover
          /\ Legacy => err.found = Sp("}")
    /\ (Minimal /\ TopLevelStatementError) => ~Leftover
    /\ (Legacy /\ TopLevelStatementError /\ Leftover) =>
          /\ err.found # Sp("}")
          /\ err.found = tokens[pos + 1]
          /\ err.message = <<"expected", "statement">>

\* After a statement the tree-building parser has met ')' at top level and
\* statement has raised.
C12_Witness ==
    /\ Legacy
    /\ TopLevelStatementError
    /\ pos > 0
    /\ err.found = Sp(")")

IsBoolean(t) == t.type = "Keywords" /\ t.value \in {"true", "false"}

HasBoolean(l) == \E i \in DOMAIN l : IsBoolean(l[i])

\* C13 as claimed: the verdict-only parser takes no boolean literal as a
\* primary, so it accepts no program with true or false in it, and
\* bool val; val = (5 > 3) == true; is accepted by the tree-building parser
\* alone.
C13_NoBooleanPrimaryInMinimal ==
    /\ (Minimal /\ outcome = "Accepted") => ~HasBoolean(tokens)
    /\ (Done /\ tokens = ComplexLogic) => (outcome = "Accepted" <=> Legacy)

\* C13 as amended: both parsers take true and false as a primary: neither
\* factor nor primary raises on one, and both accept
\* bool val; val = (5 > 3) == true; (the tree-building parser with == at
\* the root, > to the left and the boolean to the right).  Only as the
\* start of a statement is a boolean literal left to the tree-building
\* parser.
C13_BooleanPrimaryInBoth ==
    /\ (Done /\ tokens = ComplexLogic) => outcome = "Accepted"
    /\ (Legacy /\ Done /\ tokens = ComplexLogic) =>
          ret = [type |-> "program",
                 body |-> <<[type |-> "declaration", var_type |-> "bool", name |-> "val"],
                            [type |-> "assignment", target |-> "val",
                             value |-> Bin("==",
                                           Bin(">", [type |-> "number", value |-> "5"],
                                                    [type |-> "number", value |-> "3"]),
                                           [type |-> "boolean", value |-> "true"])]>>]
    /\ (outcome = "SyntaxError" /\ Top.proc \in {"factor", "legacy_primary"}
        /\ err.found # None) => ~IsBoolean(err.found)
    /\ (Minimal /\ outcome = "Accepted" /\ tokens # <<>>) => ~IsBoolean(tokens[1])

\* The verdict-only parser has accepted bool val; val = (5 > 3) == true;
C13_Witness ==
    /\ Minimal
    /\ outcome = "Accepted"
    /\ tokens = ComplexLogic
    /\ pos = Len(ComplexLogic)

\* C14: in every state of either parser, from construction to accept or
\* failure, 0 <= pos <= len(tokens), current_token is absent exactly if
\* pos = len(tokens) and is tokens[pos] otherwise (tokens[pos + 1], counting
\* from 1); pos never decreases and changes only by one, in the advance of
\* a call of eat or eat_value; the token list is never changed.
C14_CursorInvariant ==
    /\ [](/\ 0 <= pos /\ pos <= Len(tokens)
          /\ current_token = None <=> pos = Len(tokens)
          /\ pos < Len(tokens) => current_token = tokens[pos + 1])
    /\ [][/\ pos' >= pos
          /\ pos' # pos => /\ pos' = pos + 1
                           /\ last_call' # None
                           /\ outcome' = "running"
          /\ tokens' = tokens]_vars

\* The cursor has moved past the last of at least three tokens, and the
\* parse has ended.
C14_Witness ==
    /\ Done
    /\ Len(tokens) >= 3
    /\ pos = Len(tokens)
    /\ current_token = None
    /\ last_call # None

====
